---------------------------- MODULE Spec2Model ----------------------------
(***************************************************************************)
(* Pong: the scene objects of videogame/scene.py (Scene, TitleScreen,      *)
(* GameScreen, GameOver) and the driver loop of videogame/game.py          *)
(* (PongGame.run).                                                         *)
(*                                                                         *)
(* A scene object is a record.  A GameScreen record carries the fields of  *)
(* GameScreen.__init__ that update_scene and process_event read or write.  *)
(* Left out: the surfaces, fonts and sounds (draw only), _ai_delay (a      *)
(* counter that is written and never read), _countdown and                 *)
(* _countdown_timer (never read).                                          *)
(*                                                                         *)
(* The clock: pygame.time.get_ticks() is read only in the two differences  *)
(*   now - self._countdown_start_time   and   now - self._score_time,      *)
(* so a GameScreen record carries these two differences (since_countdown,  *)
(* since_score), each saturated at the threshold it is compared with.      *)
(* Storing a time stamp sets the difference to 0; the action Tick lets     *)
(* ClockStep milliseconds pass.                                            *)
(*                                                                         *)
(* videogame/scenemanager.py is not among the source files: SceneManager   *)
(* is modelled from section 4.5 of the specification.                      *)
(*                                                                         *)
(* Input: a key event may reach a scene at any time.  The model counts in  *)
(* keyed the key events that have changed a movement flag of a GameScreen  *)
(* and explores at most MaxKeys of them; a match whose flags have been     *)
(* changed is followed for KeyedPoints points and KeyedRally rally calls,  *)
(* a match without such an event for MaxPoints points and MaxRally calls.  *)
(*                                                                         *)
(* start_scene ends the process with SystemExit when the soundtrack cannot *)
(* be loaded: pc is then "exited" and no operation follows.                *)
(*                                                                         *)
(* Four specifications share the variables:                                *)
(*   SpecScene    one scene object, called directly (process_event,        *)
(*                update_scene, the clock);                                *)
(*   SpecGame     PongGame.__init__ followed by PongGame.run;              *)
(*   SpecManager  a SceneManager of press-any-key scenes, called directly; *)
(*   SpecLive     one GameScreen without input, update_scene and the clock *)
(*                under weak fairness.                                     *)
(***************************************************************************)
EXTENDS Integers, Sequences, FiniteSets, TLC

(* ------------------------------ constants ------------------------------ *)
Width == 750
Height == 750
BallSize == 30
BallOffset == 15
BallSpeed == 8
PaddleWidth == 20
PaddleHeight == 180
PaddleOffset == 80
PlayerX == 30
AiMargin == 40
PlayerSpeed == 12
AiSpeed == 9
JitterMax == 40
DeadZone == 60
RoundDelay == 1000
WinScore == 3

(* ------------------------------- bounds -------------------------------- *)
\* length in ms of assets/sounds/beep.mp3 (Sound.get_length() * 1000)
SoundLength == 1000
\* ms that pass in one Tick
ClockStep == 500
\* key events that change a movement flag of a GameScreen
MaxKeys == 1
\* while no key event has changed a movement flag: update_scene is not
\* called on a GameScreen whose scores sum to MaxPoints
MaxPoints == 4
\* while no key event has changed a movement flag: update_scene calls that
\* run the rally code between two resets of the ball
MaxRally == 165
\* once a key event has changed a movement flag: update_scene is not called
\* on a GameScreen whose scores sum to KeyedPoints
KeyedPoints == 2
\* once a key event has changed a movement flag: update_scene calls that
\* run the rally code between two resets of the ball
KeyedRally == 50
\* events one pygame.event.get() returns
MaxBatch == 1
\* scenes a SceneManager holds in the manager harness
MaxScenes == 4
\* in the match without input, update_scene calls that run the rally code
\* after the first point
LiveFrames == 3

VARIABLES
    scenes,   \* the scene objects; in SpecGame and SpecManager, SceneManager._scenes
    current,  \* SceneManager: index of the active scene (0: no manager)
    log,      \* the start_scene / end_scene calls made so far, in order
    pc,       \* PongGame.run: the next step of the loop
    run,      \* PongGame.run: the local variable run
    frames,   \* update_scene calls that ran the rally code since the ball was reset
    keyed     \* key events that have changed a movement flag of a GameScreen

vars == <<scenes, current, log, pc, run, frames, keyed>>

(* ------------------------------- events -------------------------------- *)
Keys == {"K_w", "K_s", "K_UP", "K_DOWN", "K_ESCAPE", "K_SPACE"}

QuitEvent == [type |-> "QUIT", key |-> "none"]

KeyEvents == [type : {"KEYDOWN", "KEYUP"}, key : Keys]

Events == KeyEvents \cup {QuitEvent}

EscapeDown == [type |-> "KEYDOWN", key |-> "K_ESCAPE"]

(* -------------------------------- rects -------------------------------- *)
\* pygame.Rect.colliderect for the ball (BallSize square) and a paddle
colliderect(bx, by, px, py) ==
    /\ bx < px + PaddleWidth
    /\ by < py + PaddleHeight
    /\ bx + BallSize > px
    /\ by + BallSize > py

BallCenterY(g) == g.ball_y + BallSize \div 2

PaddleCenterY(y) == y + PaddleHeight \div 2

(* ------------------------------ GameScreen ----------------------------- *)
NewGameScreen ==
    [kind |-> "GameScreen",
     is_valid |-> TRUE,
     ball_x |-> Width \div 2 - BallOffset,
     ball_y |-> Height \div 2 - BallOffset,
     vel_x |-> BallSpeed,
     vel_y |-> BallSpeed,
     player_x |-> PlayerX,
     player_y |-> Height \div 2 - PaddleOffset,
     ai_x |-> Width - AiMargin,
     ai_y |-> Height \div 2 - PaddleOffset,
     player_move_up |-> FALSE,
     player_move_down |-> FALSE,
     player_score |-> 0,
     ai_score |-> 0,
     countdown_played |-> FALSE,
     serve |-> TRUE,
     wait_after_score |-> FALSE,
     since_countdown |-> SoundLength,
     since_score |-> RoundDelay]

Signs == {-1, 1}

\* mutant of _reset_ball: one random sign drawn and used for both axes
reset_ball_one_sign(g, sx, sy) ==
    [g EXCEPT !.ball_x = Width \div 2 - BallOffset,
              !.ball_y = Height \div 2 - BallOffset,
              !.vel_x = BallSpeed * sx,
              !.vel_y = BallSpeed * sx,
              !.wait_after_score = TRUE,
              !.since_score = 0]

_reset_ball(g, sx, sy) ==
    [g EXCEPT !.ball_x = Width \div 2 - BallOffset,
              !.ball_y = Height \div 2 - BallOffset,
              !.vel_x = BallSpeed * sx,
              !.vel_y = BallSpeed * sy,
              !.wait_after_score = TRUE,
              !.since_score = 0]

_reset_player(g) ==
    [g EXCEPT !.player_x = PlayerX, !.player_y = Height \div 2 - PaddleOffset]

_reset_ai(g) ==
    [g EXCEPT !.ai_x = Width - AiMargin, !.ai_y = Height \div 2 - PaddleOffset]

\* scene.py 179-182: the countdown sound is started once per serve
CountdownStep(g) ==
    IF ~g.countdown_played
    THEN [g EXCEPT !.since_countdown = 0, !.countdown_played = TRUE]
    ELSE g

\* mutant of ServeReturns: the length of the sound is taken in seconds
\* (int(get_length()) without the factor 1000)
ServeReturnsSeconds(g) ==
    g.serve /\ CountdownStep(g).since_countdown < SoundLength \div 1000

\* scene.py 178-188: the call returns while the countdown sound lasts
ServeReturns(g) == g.serve /\ CountdownStep(g).since_countdown < SoundLength

\* scene.py 178-190 when the call goes on
AfterServe(g) == IF g.serve THEN [CountdownStep(g) EXCEPT !.serve = FALSE] ELSE g

\* mutant of WaitReturns: the comparison with the delay is turned around
WaitReturnsInverted(g) == g.wait_after_score /\ g.since_score > RoundDelay

\* scene.py 193-196: the call returns during the delay after a point
WaitReturns(g) == g.wait_after_score /\ g.since_score < RoundDelay

\* mutant of AfterWait: the flag of the delay is left set when the delay
\* is over
AfterWaitKeepsWaiting(g) ==
    IF g.wait_after_score
    THEN [g EXCEPT !.countdown_played = FALSE]
    ELSE g

\* scene.py 193-200 when the call goes on
AfterWait(g) ==
    IF g.wait_after_score
    THEN [g EXCEPT !.wait_after_score = FALSE, !.serve = TRUE,
                   !.countdown_played = FALSE]
    ELSE g

\* mutant of PaddleCollision: a paddle returns the ball one unit faster
PaddleCollisionSpeedsUp(g) ==
    LET faster == IF g.vel_x > 0 THEN -g.vel_x - 1 ELSE -g.vel_x + 1
    IN  IF colliderect(g.ball_x, g.ball_y, g.player_x, g.player_y)
        THEN [g EXCEPT !.vel_x = faster]
        ELSE IF colliderect(g.ball_x, g.ball_y, g.ai_x, g.ai_y)
             THEN [g EXCEPT !.vel_x = faster]
             ELSE g

\* mutant of PaddleCollision: the test of the AI paddle is an if of its own
\* instead of an elif
PaddleCollisionTwoIfs(g) ==
    LET g1 == IF colliderect(g.ball_x, g.ball_y, g.player_x, g.player_y)
              THEN [g EXCEPT !.vel_x = -g.vel_x]
              ELSE g
    IN  IF colliderect(g1.ball_x, g1.ball_y, g1.ai_x, g1.ai_y)
        THEN [g1 EXCEPT !.vel_x = -g1.vel_x]
        ELSE g1

\* scene.py 203-208
PaddleCollision(g) ==
    IF colliderect(g.ball_x, g.ball_y, g.player_x, g.player_y)
    THEN [g EXCEPT !.vel_x = -g.vel_x]
    ELSE IF colliderect(g.ball_x, g.ball_y, g.ai_x, g.ai_y)
         THEN [g EXCEPT !.vel_x = -g.vel_x]
         ELSE g

\* mutant of MoveBall: the vertical component is added to both coordinates
MoveBallOneComponent(g) ==
    [g EXCEPT !.ball_x = g.ball_x + g.vel_y, !.ball_y = g.ball_y + g.vel_y]

\* scene.py 210-211
MoveBall(g) ==
    [g EXCEPT !.ball_x = g.ball_x + g.vel_x, !.ball_y = g.ball_y + g.vel_y]

\* mutant of ScoreAndReset: the first scoring block counts the point and
\* resets the paddles but leaves the ball where it is
ScoreWithoutBallReset(g) ==
    IF g.ball_x + BallSize < 0
    THEN {_reset_ai(_reset_player([g EXCEPT !.ai_score = g.ai_score + 1]))}
    ELSE IF g.ball_x > Width
         THEN {_reset_ai(_reset_player(
                   [g EXCEPT !.player_score = g.player_score + 1]))}
         ELSE {g}

\* scene.py 214-225: the set of outcomes over the random signs of _reset_ball
ScoreAndReset(g) ==
    IF g.ball_x + BallSize < 0
    THEN {_reset_ai(_reset_player(
              _reset_ball([g EXCEPT !.ai_score = g.ai_score + 1], sx, sy)))
          : sx \in Signs, sy \in Signs}
    ELSE IF g.ball_x > Width
         THEN {_reset_ai(_reset_player(
                   _reset_ball([g EXCEPT !.player_score = g.player_score + 1],
                               sx, sy)))
               : sx \in Signs, sy \in Signs}
         ELSE {g}

\* mutant of WallCollision: > and < for >= and <=
WallCollisionStrict(g) ==
    IF g.ball_y + BallSize > Height \/ g.ball_y < 0
    THEN [g EXCEPT !.vel_y = -g.vel_y]
    ELSE g

\* scene.py 228-230
WallCollision(g) ==
    IF g.ball_y + BallSize >= Height \/ g.ball_y <= 0
    THEN [g EXCEPT !.vel_y = -g.vel_y]
    ELSE g

\* scene.py 233-236
MovePlayer(g) ==
    LET g1 == IF g.player_move_up /\ g.player_y > 0
              THEN [g EXCEPT !.player_y = g.player_y - PlayerSpeed]
              ELSE g
    IN  IF g1.player_move_down /\ g1.player_y + PaddleHeight < Height
        THEN [g1 EXCEPT !.player_y = g1.player_y + PlayerSpeed]
        ELSE g1

\* scene.py 247-256 for one value of ai_random
MoveAiWith(g, ai_random) ==
    IF /\ BallCenterY(g) + ai_random < PaddleCenterY(g.ai_y) - DeadZone
       /\ g.ai_y > 0
    THEN [g EXCEPT !.ai_y = g.ai_y - AiSpeed]
    ELSE IF /\ g.ball_y + ai_random > PaddleCenterY(g.ai_y) + DeadZone
            /\ g.ai_y + PaddleHeight < Height
         THEN [g EXCEPT !.ai_y = g.ai_y + AiSpeed]
         ELSE g

\* scene.py 243-256: the outcomes over random.randint(-40, 40)
MoveAi(g) == {MoveAiWith(g, r) : r \in (-JitterMax)..JitterMax}

\* scene.py 259-264: the set of outcomes over the random signs of _reset_ball
ScoreAgain(g) ==
    IF g.ball_x + BallSize < 0
    THEN {_reset_ball([g EXCEPT !.ai_score = g.ai_score + 1], sx, sy)
          : sx \in Signs, sy \in Signs}
    ELSE IF g.ball_x > Width
         THEN {_reset_ball([g EXCEPT !.player_score = g.player_score + 1], sx, sy)
               : sx \in Signs, sy \in Signs}
         ELSE {g}

\* mutant of WinCheck: only the player's score is tested
WinCheckPlayerOnly(g) ==
    IF g.player_score >= WinScore
    THEN [g EXCEPT !.is_valid = FALSE]
    ELSE g

\* mutant of WinCheck: > for >=
WinCheckStrict(g) ==
    IF g.player_score > WinScore \/ g.ai_score > WinScore
    THEN [g EXCEPT !.is_valid = FALSE]
    ELSE g

\* scene.py 267-268
WinCheck(g) ==
    IF g.player_score >= WinScore \/ g.ai_score >= WinScore
    THEN [g EXCEPT !.is_valid = FALSE]
    ELSE g

\* scene.py 203-236: the GameScreen as the AI code of scene.py 243-256
\* finds it in a call that reaches the rally code
BeforeAi(g) ==
    {MovePlayer(WallCollision(g2)) : g2 \in ScoreAndReset(MoveBall(PaddleCollision(g)))}

\* scene.py 203-268: the outcomes of a call that reaches the rally code
Rally(g) ==
    UNION { UNION { {WinCheck(g4) : g4 \in ScoreAgain(g3)}
                    : g3 \in MoveAi(MovePlayer(WallCollision(g2))) }
            : g2 \in ScoreAndReset(MoveBall(PaddleCollision(g))) }

\* the call reaches the rally code (neither return of scene.py 188, 196 is taken)
RallyRuns(g) == ~ServeReturns(g) /\ ~WaitReturns(AfterServe(g))

\* GameScreen.update_scene: the outcomes of one call
update_scene(g) ==
    IF ServeReturns(g)
    THEN {CountdownStep(g)}
    ELSE IF WaitReturns(AfterServe(g))
         THEN {AfterServe(g)}
         ELSE Rally(AfterWait(AfterServe(g)))

Points(g) == g.player_score + g.ai_score

\* mutant of GameScreen_process_event: the release of any movement key
\* clears both flags
KeyUpClearsBoth(g, e) ==
    LET up == e.key \in {"K_w", "K_UP"}
        down == e.key \in {"K_s", "K_DOWN"}
    IN  IF e.type = "KEYDOWN"
        THEN [g EXCEPT !.player_move_up = IF up THEN TRUE ELSE @,
                       !.player_move_down = IF down THEN TRUE ELSE @]
        ELSE IF e.type = "KEYUP" /\ (up \/ down)
             THEN [g EXCEPT !.player_move_up = FALSE,
                            !.player_move_down = FALSE]
             ELSE g

\* GameScreen.process_event
GameScreen_process_event(g, e) ==
    LET up == e.key \in {"K_w", "K_UP"}
        down == e.key \in {"K_s", "K_DOWN"}
    IN  IF e.type = "KEYDOWN"
        THEN [g EXCEPT !.player_move_up = IF up THEN TRUE ELSE @,
                       !.player_move_down = IF down THEN TRUE ELSE @]
        ELSE IF e.type = "KEYUP"
             THEN [g EXCEPT !.player_move_up = IF up THEN FALSE ELSE @,
                            !.player_move_down = IF down THEN FALSE ELSE @]
             ELSE g

\* the clock advances by ClockStep
TickScene(g) ==
    IF g.kind = "GameScreen"
    THEN [g EXCEPT !.since_countdown = IF @ + ClockStep > SoundLength
                                       THEN SoundLength ELSE @ + ClockStep,
                   !.since_score = IF @ + ClockStep > RoundDelay
                                   THEN RoundDelay ELSE @ + ClockStep]
    ELSE g

(* --------------------- Scene, TitleScreen, GameOver -------------------- *)
NewTitleScreen == [kind |-> "TitleScreen", is_valid |-> TRUE]

GameOverWith(winner) == [kind |-> "GameOver", is_valid |-> TRUE, winner |-> winner]

Winners == {"Player", "AI"}

\* mutant of Scene_process_event: the flag is assigned the outcome of the
\* test instead of being cleared when the test succeeds
SceneProcessEventAssigns(s, e) ==
    [s EXCEPT !.is_valid =
        ~(e.type = "QUIT" \/ (e.type = "KEYDOWN" /\ e.key = "K_ESCAPE"))]

\* Scene.process_event
Scene_process_event(s, e) ==
    LET s1 == IF e.type = "QUIT" THEN [s EXCEPT !.is_valid = FALSE] ELSE s
    IN  IF e.type = "KEYDOWN" /\ e.key = "K_ESCAPE"
        THEN [s1 EXCEPT !.is_valid = FALSE]
        ELSE s1

\* mutant of PressAnyKey_process_event: the release of a key, not the
\* press, invalidates the scene
PressAnyKeyOnKeyUp(s, e) ==
    LET s1 == Scene_process_event(s, e)
    IN  IF e.type = "KEYUP" THEN [s1 EXCEPT !.is_valid = FALSE] ELSE s1

\* PressAnyKeyToExitScene.process_event, inherited by TitleScreen
PressAnyKey_process_event(s, e) ==
    LET s1 == Scene_process_event(s, e)
    IN  IF e.type = "KEYDOWN" THEN [s1 EXCEPT !.is_valid = FALSE] ELSE s1

\* GameOver.process_event
GameOver_process_event(s, e) ==
    LET s1 == Scene_process_event(s, e)
    IN  IF e.type = "KEYDOWN" THEN [s1 EXCEPT !.is_valid = FALSE] ELSE s1

\* process_event as dispatched on the class of the scene
process_event(s, e) ==
    IF s.kind = "GameScreen"
    THEN GameScreen_process_event(s, e)
    ELSE IF s.kind = "TitleScreen"
         THEN PressAnyKey_process_event(s, e)
         ELSE GameOver_process_event(s, e)

\* update_scene as dispatched on the class of the scene (Scene.update_scene
\* does nothing)
UpdateOutcomes(s) == IF s.kind = "GameScreen" THEN update_scene(s) ELSE {s}

\* is_valid
is_valid(s) == s.is_valid

(* ------------------------ bounds on the environment --------------------- *)
\* the count of flag-changing key events after an event has taken scene s
\* to t (process_event changes nothing but the two flags of a GameScreen)
KeysAfter(s, t) == IF s.kind = "GameScreen" /\ t # s THEN keyed + 1 ELSE keyed

\* update_scene is called only within the bounds on points and rally calls:
\* MaxPoints and MaxRally for a match whose movement flags no key event has
\* changed, KeyedPoints and KeyedRally once one has
CanUpdate(s) ==
    s.kind = "GameScreen" =>
        IF keyed = 0
        THEN Points(s) < MaxPoints /\ frames < MaxRally
        ELSE Points(s) < KeyedPoints /\ frames < KeyedRally

\* the rally counter after a call that took s to t
FramesAfter(s, t) ==
    IF s.kind = "GameScreen" /\ RallyRuns(s)
    THEN IF Points(t) > Points(s) THEN 0 ELSE frames + 1
    ELSE frames

(* ------------------------- scene-level harness ------------------------- *)
TheScene == scenes[1]

Game == scenes[1]

IsGame == Game.kind = "GameScreen"

InitScene ==
    /\ scenes \in {<<NewGameScreen>>, <<NewTitleScreen>>}
                  \cup {<<GameOverWith(w)>> : w \in Winners}
    /\ current = 0
    /\ log = <<>>
    /\ pc = "none"
    /\ run = TRUE
    /\ frames = 0
    /\ keyed = 0

CallUpdate ==
    /\ CanUpdate(TheScene)
    /\ \E t \in UpdateOutcomes(TheScene) :
          /\ scenes' = <<t>>
          /\ frames' = FramesAfter(TheScene, t)
    /\ UNCHANGED <<current, log, pc, run, keyed>>

CallProcessEvent ==
    /\ \E e \in Events :
          /\ scenes' = <<process_event(TheScene, e)>>
          /\ keyed' = KeysAfter(TheScene, process_event(TheScene, e))
          /\ keyed' <= MaxKeys
    /\ UNCHANGED <<current, log, pc, run, frames>>

Tick ==
    /\ scenes' = <<TickScene(TheScene)>>
    /\ UNCHANGED <<current, log, pc, run, frames, keyed>>

NextScene == CallUpdate \/ CallProcessEvent \/ Tick

SpecScene == InitScene /\ [][NextScene]_vars

(* ----------------- a match without input, called fairly ---------------- *)
\* A fresh GameScreen that receives no event: the clock keeps advancing and
\* update_scene keeps being called (the loop of game.py 81-91 calls
\* update_scene and clock.tick in every iteration), until the serve after
\* the first point has been played for LiveFrames calls.
InitLive == InitScene /\ scenes = <<NewGameScreen>>

LiveCanUpdate(s) == Points(s) = 0 \/ frames < LiveFrames

CallUpdateLive == LiveCanUpdate(TheScene) /\ CallUpdate

NextLive == CallUpdateLive \/ Tick

SpecLive ==
    InitLive /\ [][NextLive]_vars /\ WF_vars(Tick) /\ WF_vars(CallUpdateLive)

(* ----------------------------- SceneManager ---------------------------- *)
\* the entry of the log for a call of start_scene / end_scene on scene i
StartCall(i) == <<"start_scene", i>>

EndCall(i) == <<"end_scene", i>>

\* Scene.start_scene (scene.py 51-60): the outcomes of the call.  Every scene
\* the program builds has a soundtrack (the default path; for a GameScreen
\* the Sound object of scene.py 126), so music.load is called: "broken" when
\* it raises pygame.error and start_scene raises SystemExit("broken!!"),
\* "playing" when the track is loaded and played.
start_scene(s) == {"playing", "broken"}

\* where the process stands after a start_scene call: SystemExit ends it,
\* otherwise it goes on at next
AfterStart(outcome, next) == IF outcome = "broken" THEN "exited" ELSE next

\* SceneManager(scene_list): the first scene is active and is started
ManagerInit(scene_list, next) ==
    /\ scenes = scene_list
    /\ current = 1
    /\ log = <<StartCall(1)>>
    /\ \E outcome \in start_scene(scene_list[1]) : pc = AfterStart(outcome, next)

Active == scenes[current]

\* SceneManager.is_valid
manager_is_valid == is_valid(Active)

\* mutant of go_to_next_scene: the next scene is started before the
\* current one is ended
GoToNextStartsFirst ==
    IF current < Len(scenes)
    THEN /\ log' = log \o <<StartCall(current + 1), EndCall(current)>>
         /\ current' = current + 1
         /\ \E outcome \in start_scene(scenes[current + 1]) :
               pc' = AfterStart(outcome, pc)
    ELSE UNCHANGED <<log, current, pc>>

\* mutant of go_to_next_scene: the index advances without the test for the
\* last scene
GoToNextUnguarded ==
    /\ log' = log \o <<EndCall(current), StartCall(current + 1)>>
    /\ current' = current + 1
    /\ \E outcome \in start_scene(Active) : pc' = AfterStart(outcome, pc)

\* SceneManager.go_to_next_scene
go_to_next_scene ==
    IF current < Len(scenes)
    THEN /\ log' = log \o <<EndCall(current), StartCall(current + 1)>>
         /\ current' = current + 1
         /\ \E outcome \in start_scene(scenes[current + 1]) :
               pc' = AfterStart(outcome, pc)
    ELSE UNCHANGED <<log, current, pc>>

\* SceneManager.add
add(scene) == scenes' = Append(scenes, scene)

(* --------------------------- manager harness --------------------------- *)
PressAnyKeyScenes == {NewTitleScreen} \cup {GameOverWith(w) : w \in Winners}

InitManager ==
    /\ \E s \in PressAnyKeyScenes : ManagerInit(<<s>>, "none")
    /\ run = TRUE
    /\ frames = 0
    /\ keyed = 0

\* the process that holds the manager has not been ended by SystemExit
Alive == pc # "exited"

MgrAdd ==
    /\ Alive
    /\ Len(scenes) < MaxScenes
    /\ \E s \in PressAnyKeyScenes : add(s)
    /\ UNCHANGED <<current, log, pc, run, frames, keyed>>

MgrGoToNextScene ==
    /\ Alive
    /\ go_to_next_scene
    /\ UNCHANGED <<scenes, run, frames, keyed>>

MgrProcessEvent ==
    /\ Alive
    /\ \E e \in Events :
          scenes' = [scenes EXCEPT ![current] = process_event(Active, e)]
    /\ UNCHANGED <<current, log, pc, run, frames, keyed>>

MgrUpdateScene ==
    /\ Alive
    /\ \E t \in UpdateOutcomes(Active) : scenes' = [scenes EXCEPT ![current] = t]
    /\ UNCHANGED <<current, log, pc, run, frames, keyed>>

NextManager == MgrAdd \/ MgrGoToNextScene \/ MgrProcessEvent \/ MgrUpdateScene

SpecManager == InitManager /\ [][NextManager]_vars

(* ------------------------------- PongGame ------------------------------ *)
\* PongGame.__init__: SceneManager([GameScreen(...), TitleScreen(...)])
InitGame ==
    /\ ManagerInit(<<NewGameScreen, NewTitleScreen>>, "poll")
    /\ run = TRUE
    /\ frames = 0
    /\ keyed = 0

\* the lists pygame.event.get() may return
Batches == UNION {[1..n -> Events] : n \in 0..MaxBatch}

RECURSIVE Dispatch(_, _, _)
\* game.py 82-86: the events of the batch from the k-th on, sent to scene s
Dispatch(s, batch, k) ==
    IF k > Len(batch)
    THEN s
    ELSE IF batch[k].type = "QUIT"
         THEN Dispatch(s, batch, k + 1)
         ELSE Dispatch(process_event(s, batch[k]), batch, k + 1)

RECURSIVE Changes(_, _, _)
\* the events of the batch from the k-th on whose dispatch changes a
\* movement flag of scene s
Changes(s, batch, k) ==
    IF k > Len(batch)
    THEN 0
    ELSE LET t == Dispatch(s, <<batch[k]>>, 1)
         IN  (IF s.kind = "GameScreen" /\ t # s THEN 1 ELSE 0)
                 + Changes(t, batch, k + 1)

HasQuit(batch) == \E k \in DOMAIN batch : batch[k].type = "QUIT"

\* game.py 82-86
Poll ==
    /\ pc = "poll"
    /\ \E batch \in Batches :
          /\ scenes' = [scenes EXCEPT ![current] = Dispatch(Active, batch, 1)]
          /\ run' = IF HasQuit(batch) THEN FALSE ELSE run
          /\ keyed' = keyed + Changes(Active, batch, 1)
          /\ keyed' <= MaxKeys
    /\ pc' = "update"
    /\ UNCHANGED <<current, log, frames>>

\* game.py 87
Update ==
    /\ pc = "update"
    /\ CanUpdate(Active)
    /\ \E t \in UpdateOutcomes(Active) :
          /\ scenes' = [scenes EXCEPT ![current] = t]
          /\ frames' = FramesAfter(Active, t)
    /\ pc' = "draw"
    /\ UNCHANGED <<current, log, run, keyed>>

\* game.py 94: the scene the driver inspects, self._scene_manager._scenes[-1]
current_scene_index == Len(scenes)

current_scene == scenes[current_scene_index]

\* mutant of AfterCheck: with a valid manager the loop goes on whatever the
\* value of run
AfterCheckIgnoresRun ==
    IF manager_is_valid
    THEN "poll"
    ELSE IF current_scene.kind = "GameScreen"
         THEN "crashed"
         ELSE IF current_scene.kind = "TitleScreen"
              THEN "crashed"
              ELSE "terminated"

\* game.py 93-117: the step after the validity check.  The attributes
\* _game_mode (of GameScreen) and get_selected_game_mode (of TitleScreen) do
\* not exist in scene.py, so reading them raises AttributeError and run()
\* is left by the exception.
AfterCheck ==
    IF manager_is_valid
    THEN IF run THEN "poll" ELSE "terminated"
    ELSE IF current_scene.kind = "GameScreen"
         THEN "crashed"
         ELSE IF current_scene.kind = "TitleScreen"
              THEN "crashed"
              ELSE "terminated"

\* game.py 116-117: an invalid manager whose inspected scene is a GameOver
\* clears run
RunAfterCheck ==
    IF ~manager_is_valid /\ current_scene.kind = "GameOver" THEN FALSE ELSE run

\* game.py 88-117 (and 119-120 when the loop ends): draw, flip, tick the
\* clock, check the manager
DrawAndCheck ==
    /\ pc = "draw"
    /\ pc' = AfterCheck
    /\ run' = RunAfterCheck
    /\ \E pass \in BOOLEAN :
          scenes' = IF pass
                    THEN [i \in DOMAIN scenes |-> TickScene(scenes[i])]
                    ELSE scenes
    /\ UNCHANGED <<current, log, frames, keyed>>

NextGame == Poll \/ Update \/ DrawAndCheck

SpecGame == InitGame /\ [][NextGame]_vars

(* ================================ claims =============================== *)
StartY == Height \div 2 - PaddleOffset

CenterX == Width \div 2 - BallOffset

CenterY == Height \div 2 - BallOffset

\* a call of update_scene on g runs the rally code and moves the ball over
\* a goal line (the tests of scene.py 214 and 220)
BallLeavesField(g) ==
    /\ RallyRuns(g)
    /\ LET moved == MoveBall(PaddleCollision(AfterWait(AfterServe(g))))
       IN  moved.ball_x + BallSize < 0 \/ moved.ball_x > Width

\* the outcomes of update_scene in which a point is scored (there are none
\* unless the ball leaves the field)
ScoringOutcomes(g) ==
    IF BallLeavesField(g)
    THEN {t \in update_scene(g) : Points(t) > Points(g)}
    ELSE {}

\* the scenes whose start_scene has been called more often than their end_scene
Count(call) == Cardinality({k \in DOMAIN log : log[k] = call})

StartedNotEnded == {i \in DOMAIN scenes : Count(StartCall(i)) > Count(EndCall(i))}

(* C1: on a GameScreen both paddles stay within [0, Height - PaddleHeight] *)
(* on the vertical axis, after any calls of process_event and update_scene. *)
(* The code tests the edge before it moves the paddle by its whole speed,  *)
(* so a paddle ends beyond the edge: TLC finds this formula violated.      *)
C1_PaddlesInBounds ==
    IsGame => /\ Game.player_y \in 0..(Height - PaddleHeight)
              /\ Game.ai_y \in 0..(Height - PaddleHeight)

(* C2: whenever a score of the GameScreen equals 3, the screen is invalid: *)
(* the update_scene call that brings a score to 3 returns with is_valid    *)
(* false.                                                                  *)
C2_ThreeEndsMatch ==
    (IsGame /\ (Game.player_score = WinScore \/ Game.ai_score = WinScore))
        => ~is_valid(Game)

\* the AI has just scored its third point
C2_Witness ==
    /\ IsGame
    /\ Game.ai_score = WinScore
    /\ Game.player_score < WinScore
    /\ Game.wait_after_score
    /\ Game.since_score = 0
    /\ ~is_valid(Game)

(* C3: in every step the scores are unchanged or exactly one of them grows *)
(* by exactly 1: the AI's only when the ball, advanced by that call, has   *)
(* right < 0, the player's only when it has left > Width.                  *)
C3_OnePointPerCall ==
    [][IsGame =>
         LET dp == Game'.player_score - Game.player_score
             da == Game'.ai_score - Game.ai_score
             moved == MoveBall(PaddleCollision(Game))
         IN  /\ <<dp, da>> \in {<<0, 0>>, <<1, 0>>, <<0, 1>>}
             /\ da = 1 => moved.ball_x + BallSize < 0
             /\ dp = 1 => moved.ball_x > Width]_vars

\* each side has scored in some call
C3_Witness == IsGame /\ Game.player_score = 1 /\ Game.ai_score = 1

(* C4: after a call that scored (the screen waits for the next round) the  *)
(* ball is at the centre and each velocity component is +8 or -8; and a    *)
(* call that scores can return each of the four sign combinations.         *)
C4_BallResetAfterPoint ==
    IsGame =>
        /\ Game.wait_after_score =>
              /\ Game.ball_x = CenterX
              /\ Game.ball_y = CenterY
              /\ Game.vel_x \in {BallSpeed, -BallSpeed}
              /\ Game.vel_y \in {BallSpeed, -BallSpeed}
        /\ ScoringOutcomes(Game) # {} =>
              {<<t.vel_x, t.vel_y>> : t \in ScoringOutcomes(Game)}
                  = {BallSpeed, -BallSpeed} \X {BallSpeed, -BallSpeed}

\* a point was scored and the ball was sent up and to the right
C4_Witness ==
    /\ IsGame
    /\ Game.wait_after_score
    /\ Game.vel_x = BallSpeed
    /\ Game.vel_y = -BallSpeed

(* C5: after a call that scored (the screen waits for the next round) both *)
(* paddles are at their start positions, whatever the movement flags.      *)
(* The code moves the player paddle after it has reset it, so with a flag  *)
(* set the paddle is one step off: TLC finds this formula violated.        *)
C5_PaddlesResetAfterPoint ==
    (IsGame /\ Game.wait_after_score) =>
        /\ Game.player_x = PlayerX
        /\ Game.player_y = StartY
        /\ Game.ai_x = Width - AiMargin
        /\ Game.ai_y = StartY

(* C6: validity is absorbing for TitleScreen, GameScreen and GameOver: no  *)
(* step takes an invalid scene to a valid one.                             *)
C6_InvalidStaysInvalid ==
    [][\A i \in DOMAIN scenes :
          (i \in DOMAIN scenes' /\ ~is_valid(scenes[i])) => ~is_valid(scenes'[i])]_vars

\* an invalid GameScreen on which update_scene has run the rally code again
C6_Witness ==
    /\ IsGame
    /\ ~is_valid(Game)
    /\ ~Game.wait_after_score
    /\ frames > 0

(* C7: once a GameScreen is invalid neither score changes again, whatever  *)
(* calls follow and however much time passes.  update_scene does not test  *)
(* the validity flag: after the delay the rally resumes and the next point *)
(* is counted: TLC finds this formula violated.                            *)
C7_ScoresFrozenWhenInvalid ==
    [][(IsGame /\ ~is_valid(Game)) =>
          /\ Game'.player_score = Game.player_score
          /\ Game'.ai_score = Game.ai_score]_vars

(* C8: in PongGame.run, update_scene and draw are never called on a scene  *)
(* whose validity is false.  The loop checks validity only after draw, so  *)
(* the scene that update_scene has just invalidated is drawn: TLC finds    *)
(* this formula violated.                                                  *)
C8_NoUpdateOrDrawWhenInvalid ==
    pc \in {"update", "draw"} => is_valid(Active)

(* C9: when the driver has left the loop and torn down the platform, every *)
(* scene whose start_scene was called has had its end_scene called.  The   *)
(* loop never calls end_scene on the quit path: TLC finds this formula     *)
(* violated.                                                               *)
C9_EndSceneBeforeExit ==
    pc = "terminated" => StartedNotEnded = {}

(* C10: go_to_next_scene calls end_scene of the outgoing scene immediately *)
(* before start_scene of the incoming one, and at the last scene it        *)
(* neither advances nor starts a scene: the calls made so far are          *)
(* start 1, end 1, start 2, ..., end c-1, start c for the active index c,  *)
(* which is an index of the scene list.                                    *)
C10_EndBeforeStart ==
    /\ current \in 1..Len(scenes)
    /\ Len(log) = 2 * current - 1
    /\ log[1] = StartCall(1)
    /\ \A k \in 1..(current - 1) :
          /\ log[2 * k] = EndCall(k)
          /\ log[2 * k + 1] = StartCall(k + 1)

\* the manager has advanced twice and stands at its last scene
C10_Witness == current = 3 /\ Len(scenes) = 3

\* the scenes that are active
ActiveScenes == {i \in DOMAIN scenes : i = current}

(* C11: after construction and any calls of add, go_to_next_scene and the  *)
(* forwarding calls, exactly one scene of the manager is active, the       *)
(* active index is an index of the scene sequence, and no step takes the   *)
(* index beyond the last scene or back.                                    *)
C11_ActiveIndexValid ==
    /\ [](Cardinality(ActiveScenes) = 1 /\ current \in DOMAIN scenes)
    /\ [][current' \in current..Len(scenes')]_vars

\* the manager stands at the last of MaxScenes scenes
C11_Witness == current = MaxScenes /\ Len(scenes) = MaxScenes

\* the scene the manager started first
FirstActive == scenes[log[1][2]]

\* a scene of the given class was active before the active one and is invalid
EndedBefore(kind) ==
    \E i \in 1..(current - 1) : scenes[i].kind = kind /\ ~is_valid(scenes[i])

(* C12: in PongGame the first active scene is a TitleScreen, a GameScreen  *)
(* is active only after a TitleScreen was invalidated, and a GameOver is   *)
(* active only after a GameScreen was invalidated.  PongGame.__init__      *)
(* lists the GameScreen before the TitleScreen and the manager activates   *)
(* the first element: TLC finds this formula violated.                     *)
C12_TitleGameOverOrder ==
    Len(log) > 0 =>
        /\ FirstActive.kind = "TitleScreen"
        /\ Active.kind = "GameScreen" => EndedBefore("TitleScreen")
        /\ Active.kind = "GameOver" => EndedBefore("GameScreen")

(* C13: whenever the manager reports invalid at the check of the loop, the *)
(* scene whose class the driver inspects is the active scene, the one that *)
(* has just become invalid.  The driver inspects the last element of the   *)
(* scene list while the first is active: TLC finds this formula violated.  *)
C13_InspectsEndedScene ==
    (pc = "draw" /\ ~manager_is_valid) =>
        /\ current_scene_index = current
        /\ ~is_valid(current_scene)

\* the GameOver scenes the manager holds
GameOverScenes == {i \in DOMAIN scenes : scenes[i].kind = "GameOver"}

\* a match has ended and the driver has made its check of the manager
MatchEnded ==
    /\ Active.kind = "GameScreen"
    /\ ~is_valid(Active)
    /\ pc \notin {"update", "draw"}

(* C14: when a match has ended and the driver has checked the manager, the *)
(* manager holds exactly one GameOver scene, whose winner is "Player" when *)
(* player_score >= 3 and "AI" otherwise (ai_score is then 3).  The driver  *)
(* raises AttributeError before it builds the GameOver scene: TLC finds    *)
(* this formula violated.                                                  *)
C14_GameOverNamesWinner ==
    MatchEnded =>
        /\ Cardinality(GameOverScenes) = 1
        /\ \A i \in GameOverScenes :
              scenes[i].winner = IF Active.player_score >= WinScore
                                 THEN "Player" ELSE "AI"
        /\ Active.player_score < WinScore => Active.ai_score = WinScore

\* run() has been left: by the end of the loop or by an exception
LeftRunning == pc \in {"terminated", "crashed"}

(* C15: absent a quit event (run is still True when the loop's check is    *)
(* made) the driver leaves the Running state only when a GameOver scene    *)
(* has become invalid.  The driver is thrown out of run() by               *)
(* AttributeError when the match ends, with no GameOver scene in the       *)
(* manager: TLC finds this formula violated.                               *)
C15_LeavesOnlyOnGameOver ==
    [][(pc = "draw" /\ run /\ LeftRunning') =>
          \E i \in GameOverScenes : ~is_valid(scenes[i])]_vars

(* C16: on a TitleScreen and on a GameOver, process_event with a key-down  *)
(* event of any key returns with is_valid false, and process_event with a  *)
(* key-up event of any key leaves is_valid as it was.                      *)
C16_AnyKeyDownInvalidates ==
    TheScene.kind \in {"TitleScreen", "GameOver"} =>
        \A e \in KeyEvents :
            /\ e.type = "KEYDOWN" => ~is_valid(process_event(TheScene, e))
            /\ e.type = "KEYUP" =>
                   is_valid(process_event(TheScene, e)) = is_valid(TheScene)

\* a GameOver scene that process_event has invalidated
C16_Witness == TheScene.kind = "GameOver" /\ ~is_valid(TheScene)

(* C17: for a TitleScreen, a GameScreen and a GameOver alike, process_event *)
(* with a quit event or with an escape key-down returns with is_valid      *)
(* false.  GameScreen.process_event overrides Scene.process_event without  *)
(* calling it, so a GameScreen stays valid: TLC finds this formula         *)
(* violated.                                                               *)
C17_QuitEscapeInvalidate ==
    \A e \in {QuitEvent, EscapeDown} : ~is_valid(process_event(TheScene, e))

(* C18: a quit event polled by the driver clears run in that iteration    *)
(* (while the loop goes on run is cleared only by the poll step; the one   *)
(* other step that clears it is the check that ends the loop on an invalid *)
(* GameOver), is not dispatched to a scene (dispatching a batch that holds *)
(* only the quit event leaves the scene as it was), and ends the loop at   *)
(* the end of that same iteration: with run cleared the step after draw    *)
(* leaves run(), whatever the validity check finds, and the driver never   *)
(* polls again.                                                            *)
C18_QuitEndsLoop ==
    /\ [](~run => pc # "poll")
    /\ [](\A s \in {Active} \cup PressAnyKeyScenes :
             Dispatch(s, <<QuitEvent>>, 1) = s)
    /\ [][/\ (run /\ ~run') =>
                \/ pc = "poll" /\ pc' = "update"
                \/ pc = "draw" /\ pc' = "terminated"
                      /\ current_scene.kind = "GameOver"
          /\ (~run /\ pc = "draw") => LeftRunning']_vars

\* the driver has ended the loop on a quit event in the middle of a match
C18_Witness ==
    /\ pc = "terminated"
    /\ ~run
    /\ is_valid(Active)
    /\ Points(Active) > 0

(* C19: an escape key-down delivered by the driver to the active scene,    *)
(* whichever scene it is, shuts that scene down: after the dispatch of the *)
(* poll step the active scene is invalid (and the driver then terminates). *)
(* The active GameScreen ignores the escape key and the loop goes on: TLC  *)
(* finds this formula violated.                                            *)
C19_EscapeShutsDown ==
    pc = "poll" => ~is_valid(Dispatch(Active, <<EscapeDown>>, 1))

\* the states of a match (spec 4.3), read from the flags of the GameScreen
Serving(g) == g.serve

ScoredWaiting(g) == g.wait_after_score /\ ~g.serve

Rallying(g) == ~g.serve /\ ~g.wait_after_score

\* the ball overlaps one of the paddles
PaddleOverlap(g) ==
    \/ colliderect(g.ball_x, g.ball_y, g.player_x, g.player_y)
    \/ colliderect(g.ball_x, g.ball_y, g.ai_x, g.ai_y)

\* the step is an update_scene call that ran the rally code and scored no point
RallyStepNoPoint == frames' = frames + 1

(* C21: an update_scene call that begins in Rallying with the ball on no   *)
(* paddle and scores no point moves the ball by exactly the velocity it    *)
(* had at the start of the call.                                           *)
C21_BallMovesByVelocity ==
    [][(IsGame /\ Rallying(Game) /\ ~PaddleOverlap(Game) /\ RallyStepNoPoint) =>
          /\ Game'.ball_x = Game.ball_x + Game.vel_x
          /\ Game'.ball_y = Game.ball_y + Game.vel_y]_vars

\* after a serve to the upper left, a call that began in Rallying has moved
\* the ball from (344, 344) by (-8, -8)
C21_Witness ==
    /\ IsGame
    /\ Rallying(Game)
    /\ Points(Game) > 0
    /\ Game.vel_x = -BallSpeed
    /\ Game.vel_y = -BallSpeed
    /\ Game.ball_x = CenterX - 3 * BallSpeed
    /\ Game.ball_y = CenterY - 3 * BallSpeed

(* C22: in every reachable state of a GameScreen each component of the    *)
(* ball velocity is +8 or -8: the collisions and the resets change the     *)
(* sign only.                                                              *)
C22_VelocityMagnitude ==
    IsGame => /\ Game.vel_x \in {BallSpeed, -BallSpeed}
              /\ Game.vel_y \in {BallSpeed, -BallSpeed}

\* before any reset, a wall and a paddle have each flipped a component
C22_Witness ==
    /\ IsGame
    /\ Points(Game) = 0
    /\ Game.vel_x = -BallSpeed
    /\ Game.vel_y = -BallSpeed

\* ball position, ball velocity, paddle positions and scores
Physics(g) ==
    <<g.ball_x, g.ball_y, g.vel_x, g.vel_y,
      g.player_x, g.player_y, g.ai_x, g.ai_y, g.player_score, g.ai_score>>

(* C23: a step from a state in Serving whose countdown has not run out, or *)
(* from a state in ScoredWaiting (the update_scene call in which the 1000  *)
(* ms delay ends included), leaves ball position, ball velocity, paddle    *)
(* positions and scores unchanged.  The call in which the delay ends goes  *)
(* on into the rally code and moves the ball: TLC finds this formula       *)
(* violated.                                                               *)
C23_PhysicsOnlyInRallying ==
    [][(IsGame /\ (ServeReturns(Game) \/ ScoredWaiting(Game))) =>
          Physics(Game') = Physics(Game)]_vars

\* the step starts the countdown sound (scene.py 180-182)
SoundStarts == Game'.since_countdown = 0 /\ ~Game.countdown_played

(* C24: the countdown sound is started once per entry into Serving: it is  *)
(* started only in Serving with the played flag clear, the start sets the  *)
(* flag, no step moves the time stamp of the start while the flag is set,  *)
(* and the flag is cleared only by the step that enters Serving.  A        *)
(* GameScreen leaves Serving only with the sound started and at least the  *)
(* sound's length on the clock since the start.                            *)
C24_CountdownOncePerServe ==
    [][IsGame =>
         /\ SoundStarts => (Serving(Game) /\ Game'.countdown_played)
         /\ Game.countdown_played => Game'.since_countdown >= Game.since_countdown
         /\ (Game.countdown_played /\ ~Game'.countdown_played) =>
                (~Serving(Game) /\ Serving(Game'))
         /\ (Serving(Game) /\ ~Serving(Game')) =>
                /\ Game.countdown_played
                /\ Game.since_countdown >= SoundLength]_vars

\* the second serve of a match has ended: the sound was started again and
\* its length has passed
C24_Witness ==
    /\ IsGame
    /\ Points(Game) = 1
    /\ Rallying(Game)
    /\ Game.countdown_played

(* C25: a step that scores a point leaves the GameScreen in ScoredWaiting  *)
(* with the time of the score stored; the GameScreen leaves ScoredWaiting  *)
(* only with at least 1000 ms on the clock since the score, and then it is *)
(* in Serving with the countdown-played flag clear; after a point no       *)
(* countdown sound is started with less than 1000 ms since the score.      *)
C25_DelayAfterPoint ==
    [][IsGame =>
         /\ Points(Game') > Points(Game) =>
                (ScoredWaiting(Game') /\ Game'.since_score = 0)
         /\ (ScoredWaiting(Game) /\ ~ScoredWaiting(Game')) =>
                /\ Game.since_score >= RoundDelay
                /\ Serving(Game')
                /\ ~Game'.countdown_played
         /\ (Points(Game) > 0 /\ SoundStarts) =>
                Game.since_score >= RoundDelay]_vars

\* the delay after a point has ended and the countdown of the next serve
\* has been started
C25_Witness ==
    /\ IsGame
    /\ Points(Game) = 1
    /\ Serving(Game)
    /\ Game.countdown_played
    /\ Game.since_countdown = 0

\* a valid GameScreen on which update_scene goes on being called
KeepsUpdating == IsGame /\ is_valid(Game) /\ LiveCanUpdate(Game)

(* C26: with the clock advancing and update_scene called again and again   *)
(* on a valid GameScreen, a GameScreen in Serving is eventually in         *)
(* Rallying and a GameScreen in ScoredWaiting is eventually in Serving.    *)
C26_WaitingEnds ==
    /\ (KeepsUpdating /\ Serving(Game)) ~> (IsGame /\ Rallying(Game))
    /\ (KeepsUpdating /\ ScoredWaiting(Game)) ~> (IsGame /\ Serving(Game))

\* a valid GameScreen that has gone from ScoredWaiting through Serving
\* into Rallying
C26_Witness ==
    /\ IsGame
    /\ is_valid(Game)
    /\ Points(Game) = 1
    /\ Rallying(Game)
    /\ frames > 1

\* the GameScreen with both paddles put on the ball, as a surface narrower
\* than two paddle margins allows (the size is a parameter of GameScreen)
OnBothPaddles(g) ==
    [g EXCEPT !.player_x = g.ball_x, !.player_y = g.ball_y,
              !.ai_x = g.ball_x, !.ai_y = g.ball_y]

(* C27: an update_scene call that runs the rally code and scores no point  *)
(* returns with the horizontal velocity negated once when the ball         *)
(* overlapped the player paddle or the AI paddle at the start of the call, *)
(* and unchanged otherwise; on a ball that overlaps both paddles the       *)
(* paddle tests negate it once, not twice.                                 *)
C27_OneFlipPerCall ==
    /\ [](IsGame =>
            /\ PaddleOverlap(OnBothPaddles(Game))
            /\ PaddleCollision(OnBothPaddles(Game)).vel_x = -Game.vel_x)
    /\ [][(IsGame /\ RallyStepNoPoint) =>
            Game'.vel_x = IF PaddleOverlap(Game) THEN -Game.vel_x
                          ELSE Game.vel_x]_vars

\* before any reset, the AI paddle has returned the ball into the left half
C27_Witness ==
    /\ IsGame
    /\ Points(Game) = 0
    /\ Game.vel_x = -BallSpeed
    /\ Game.ball_x < CenterX

(* C28: in every reachable state of a GameScreen the ball is inside the    *)
(* surface on the vertical axis (top >= 0, bottom <= Height), and a ball   *)
(* in contact with a wall has its vertical velocity pointing inside.       *)
C28_BallInsideVertically ==
    IsGame =>
        /\ Game.ball_y >= 0
        /\ Game.ball_y + BallSize <= Height
        /\ Game.ball_y = 0 => Game.vel_y > 0
        /\ Game.ball_y + BallSize = Height => Game.vel_y < 0

\* the ball has touched the top wall and has been turned downwards
C28_Witness == IsGame /\ Game.ball_y = 0 /\ Game.vel_y = BallSpeed

\* the AI paddle's top after the move of C29 for the jitter r: towards the
\* target (ball centre plus r) when it is more than DeadZone away from the
\* paddle's centre and the paddle is not at the edge on that side
AiTowardsTarget(g, r) ==
    LET target == BallCenterY(g) + r
        centre == PaddleCenterY(g.ai_y)
    IN  IF target < centre - DeadZone /\ g.ai_y > 0
        THEN g.ai_y - AiSpeed
        ELSE IF target > centre + DeadZone /\ g.ai_y + PaddleHeight < Height
             THEN g.ai_y + AiSpeed
             ELSE g.ai_y

(* C29: in an update_scene call that runs the rally code, for every jitter *)
(* in [-40, 40] the AI paddle moves by its speed towards the jittered      *)
(* target (ball centre plus jitter) exactly when the target is more than   *)
(* 60 away from the paddle's centre and the paddle is not at the edge on   *)
(* that side, upwards and downwards alike.  The downward test of the code  *)
(* takes the ball's top for its centre, so the paddle stays where the      *)
(* target is 61 to 75 below the paddle's centre: TLC finds this formula    *)
(* violated.                                                               *)
C29_AiMoveSymmetric ==
    (IsGame /\ RallyRuns(Game)) =>
        \A h \in BeforeAi(AfterWait(AfterServe(Game))) :
            \A r \in (-JitterMax)..JitterMax :
                MoveAiWith(h, r).ai_y = AiTowardsTarget(h, r)

UpKeys == {"K_w", "K_UP"}

DownKeys == {"K_s", "K_DOWN"}

\* the value of a movement flag after event e, for the keys of that flag
FlagAfter(flag, e, keys) ==
    IF e.key \in keys /\ e.type = "KEYDOWN" THEN TRUE
    ELSE IF e.key \in keys /\ e.type = "KEYUP" THEN FALSE
         ELSE flag

\* a GameScreen with both movement flags cleared: all its other fields
WithoutFlags(g) ==
    [g EXCEPT !.player_move_up = FALSE, !.player_move_down = FALSE]

(* C30: GameScreen.process_event, for every event, sets the up flag on a   *)
(* key-down of W or Up and clears it on their key-up, likewise the down    *)
(* flag for S or Down, leaves a flag alone otherwise, and leaves every     *)
(* other field (validity, scores, ball, paddles, serve and wait state)     *)
(* unchanged.                                                              *)
C30_OnlyMovementFlags ==
    IsGame =>
        \A e \in Events :
            LET t == process_event(Game, e)
            IN  /\ t.player_move_up = FlagAfter(Game.player_move_up, e, UpKeys)
                /\ t.player_move_down =
                       FlagAfter(Game.player_move_down, e, DownKeys)
                /\ WithoutFlags(t) = WithoutFlags(Game)

\* the up key has been pressed in the middle of the first rally: the flag
\* is set and the paddle has not moved yet
C30_Witness ==
    /\ IsGame
    /\ Points(Game) = 0
    /\ Rallying(Game)
    /\ frames > 0
    /\ Game.player_move_up
    /\ ~Game.player_move_down
    /\ Game.player_y = StartY

(* C31: between operations a GameScreen is valid exactly when both scores  *)
(* are below 3 and no score is negative; no step decreases a score; and    *)
(* the step that makes the GameScreen invalid ends with exactly one score  *)
(* equal to 3 and the other at most 2.                                     *)
C31_ValidIffBelowThree ==
    /\ [](IsGame =>
            /\ is_valid(Game) <=>
                   (Game.player_score < WinScore /\ Game.ai_score < WinScore)
            /\ Game.player_score >= 0
            /\ Game.ai_score >= 0)
    /\ [][IsGame =>
            /\ Game'.player_score >= Game.player_score
            /\ Game'.ai_score >= Game.ai_score
            /\ (is_valid(Game) /\ ~is_valid(Game')) =>
                   \/ Game'.player_score = WinScore /\ Game'.ai_score < WinScore
                   \/ Game'.ai_score = WinScore /\ Game'.player_score < WinScore]_vars

\* the player has just scored the third point against an AI that has one
C31_Witness ==
    /\ IsGame
    /\ Game.player_score = WinScore
    /\ Game.ai_score = 1
    /\ Game.since_score = 0
    /\ ~is_valid(Game)

\* the ball overlaps the player paddle: the next rally call flips on it
OnPlayerPaddle(g) == colliderect(g.ball_x, g.ball_y, g.player_x, g.player_y)

\* the ball overlaps the AI paddle and not the player paddle: the next rally
\* call flips on the AI paddle
OnAiPaddle(g) ==
    /\ ~OnPlayerPaddle(g)
    /\ colliderect(g.ball_x, g.ball_y, g.ai_x, g.ai_y)

(* C32: after an update_scene call in Rallying in which a paddle has       *)
(* flipped the ball's horizontal velocity, the ball is off that paddle, so *)
(* that the next call in Rallying does not flip it on the same paddle      *)
(* again.  A ball that is level with the paddle when the paddle's vertical *)
(* range comes to cover it is still on the paddle after the move of 8 and  *)
(* is flipped in call after call: TLC finds this formula violated.         *)
C32_NoFlipTwiceOnAPaddle ==
    [][(IsGame /\ Rallying(Game) /\ Rallying(Game') /\ RallyStepNoPoint) =>
          /\ OnPlayerPaddle(Game) => ~OnPlayerPaddle(Game')
          /\ OnAiPaddle(Game) => ~OnAiPaddle(Game')]_vars

=============================================================================
